---- MODULE Spec2Model ----
(***************************************************************************)
(* interval_map<K, V> of ThinkCell-project/main.cpp, instantiated as in    *)
(* its tests with K = int and V = char.                                    *)
(*                                                                         *)
(* m_map (a std::map<K, V>) is the sequence of its entries <<key, value>>  *)
(* in iteration order, i.e. by increasing key.  An iterator is an index    *)
(* into that sequence, and end() is Len(m) + 1.                            *)
(***************************************************************************)
EXTENDS Integers, Sequences, FiniteSets, TLC

\* Keys passed to assign are 0..MaxKey.
MaxKey == 3

Keys == 0..MaxKey

\* Keys passed to operator[]: one more on each side of the assigned keys.
LookupKeys == (0 - 1)..(MaxKey + 1)

\* The value alphabet (char in the tests).
Vals == {"A", "B", "C"}

VARIABLES
    m_valBegin,  \* interval_map::m_valBegin
    m_map,       \* interval_map::m_map
    call,        \* the last call made on the object, with its arguments and result
    old_map,     \* m_map as it was when that call was entered
    oracle       \* the array of the differential test: one value per key of LookupKeys

vars == <<m_valBegin, m_map, call, old_map, oracle>>

-----------------------------------------------------------------------------
(* std::map<K, V> *)

\* it->first and it->second
first(entry) == entry[1]
second(entry) == entry[2]

\* m_map.end()
End(m) == Len(m) + 1

\* The lambda eq of assign: equivalence of keys from operator< alone.
eq(v1, v2) == (~(v1 < v2)) /\ (~(v2 < v1))

\* lower_bound taken for upper_bound: the first entry whose key is greater.
LowerBoundStrict(m, key) ==
    IF \E i \in 1..Len(m) : key < first(m[i])
    THEN CHOOSE i \in 1..Len(m) :
            /\ key < first(m[i])
            /\ \A j \in 1..(i - 1) : ~(key < first(m[j]))
    ELSE End(m)

\* m_map.lower_bound(key): the first entry whose key is not less than key.
LowerBound(m, key) ==
    IF \E i \in 1..Len(m) : ~(first(m[i]) < key)
    THEN CHOOSE i \in 1..Len(m) :
            /\ ~(first(m[i]) < key)
            /\ \A j \in 1..(i - 1) : first(m[j]) < key
    ELSE End(m)

\* upper_bound taken for lower_bound: the first entry whose key is not less.
UpperBoundWeak(m, key) ==
    IF \E i \in 1..Len(m) : ~(first(m[i]) < key)
    THEN CHOOSE i \in 1..Len(m) :
            /\ ~(first(m[i]) < key)
            /\ \A j \in 1..(i - 1) : first(m[j]) < key
    ELSE End(m)

\* m_map.upper_bound(key): the first entry whose key is greater than key.
UpperBound(m, key) ==
    IF \E i \in 1..Len(m) : key < first(m[i])
    THEN CHOOSE i \in 1..Len(m) :
            /\ key < first(m[i])
            /\ \A j \in 1..(i - 1) : ~(key < first(m[j]))
    ELSE End(m)

\* m_map.erase(it): the map without the entry at it; the iterator returned
\* (the entry after the erased one) is the same index in the result.
Erase(m, it) ==
    [j \in 1..(Len(m) - 1) |-> IF j < it THEN m[j] ELSE m[j + 1]]

\* m_map.insert(hint, entry): entry is added at the place its key orders it,
\* unless an entry with an equivalent key is there already.  The hint only
\* changes the cost of the call, not its result.
MapInsert(m, entry) ==
    IF \E i \in 1..Len(m) : eq(first(m[i]), first(entry))
    THEN m
    ELSE LET pos == LowerBound(m, first(entry))
         IN  [j \in 1..(Len(m) + 1) |->
                 IF j < pos THEN m[j]
                 ELSE IF j = pos THEN entry
                 ELSE m[j - 1]]

-----------------------------------------------------------------------------
(* interval_map::assign *)

\* The test with its operands swapped: an interval with equal bounds passes.
EmptyIntervalSwapped(keyBegin, keyEnd) == keyEnd < keyBegin

\* The test that makes assign return at once.
EmptyInterval(keyBegin, keyEnd) == ~(keyBegin < keyEnd)

\* The loop stepping over the entries of the interval instead of erasing them.
RECURSIVE ScanLoopNoErase(_, _, _, _)
ScanLoopNoErase(m, it, keyEnd, lastValue) ==
    IF it = End(m)
    THEN [map |-> m, insertIterator |-> it, lastValue |-> lastValue,
          isShouldFulfill |-> TRUE]
    ELSE IF first(m[it]) < keyEnd
    THEN ScanLoopNoErase(m, it + 1, keyEnd, second(m[it]))
    ELSE [map |-> m, insertIterator |-> it, lastValue |-> lastValue,
          isShouldFulfill |-> ~eq(first(m[it]), keyEnd)]

\* The while loop of assign, entered with insertIterator = it.
RECURSIVE ScanLoop(_, _, _, _)
ScanLoop(m, it, keyEnd, lastValue) ==
    IF it = End(m)
    THEN [map |-> m, insertIterator |-> it, lastValue |-> lastValue,
          isShouldFulfill |-> TRUE]
    ELSE IF first(m[it]) < keyEnd
    THEN ScanLoop(Erase(m, it), it, keyEnd, second(m[it]))
    ELSE [map |-> m, insertIterator |-> it, lastValue |-> lastValue,
          isShouldFulfill |-> ~eq(first(m[it]), keyEnd)]

\* The closing entry carrying the assigned value instead of lastValue.
InsertBoundsCloseWithVal(s, keyBegin, keyEnd, val) ==
    LET m1 == MapInsert(s.map, <<keyBegin, val>>)
    IN  IF s.isShouldFulfill
        THEN MapInsert(m1, <<keyEnd, val>>)
        ELSE m1

\* The two inserts that follow the loop.
InsertBounds(s, keyBegin, keyEnd, val) ==
    LET m1 == MapInsert(s.map, <<keyBegin, val>>)
    IN  IF s.isShouldFulfill
        THEN MapInsert(m1, <<keyEnd, s.lastValue>>)
        ELSE m1

\* The wipe looking at the first entry only.
WipeLoopHeadOnly(m, it, prevValue) ==
    IF it # End(m) /\ second(m[it]) = prevValue THEN Erase(m, it) ELSE m

\* The for loop "wipe out all duplicates", entered at it with prevValue.
RECURSIVE WipeLoop(_, _, _)
WipeLoop(m, it, prevValue) ==
    IF it = End(m) THEN m
    ELSE IF second(m[it]) = prevValue
    THEN WipeLoop(Erase(m, it), it, prevValue)
    ELSE WipeLoop(m, it + 1, second(m[it]))

\* The keys of the entries the while loop dereferences.
RECURSIVE ScanLoopVisited(_, _, _)
ScanLoopVisited(m, it, keyEnd) ==
    IF it = End(m) THEN {}
    ELSE IF first(m[it]) < keyEnd
    THEN {first(m[it])} \cup ScanLoopVisited(Erase(m, it), it, keyEnd)
    ELSE {first(m[it])}

\* The keys of the entries the for loop dereferences.
RECURSIVE WipeLoopVisited(_, _, _)
WipeLoopVisited(m, it, prevValue) ==
    IF it = End(m) THEN {}
    ELSE IF second(m[it]) = prevValue
    THEN {first(m[it])} \cup WipeLoopVisited(Erase(m, it), it, prevValue)
    ELSE {first(m[it])} \cup WipeLoopVisited(m, it + 1, second(m[it]))

\* The keys of the entries assign(keyBegin, keyEnd, val) dereferences after
\* lower_bound has placed insertIterator.
assignVisited(valBegin, m, keyBegin, keyEnd, val) ==
    IF EmptyInterval(keyBegin, keyEnd)
    THEN {}
    ELSE LET it == LowerBound(m, keyBegin)
             s == ScanLoop(m, it, keyEnd, valBegin)
         IN  ScanLoopVisited(m, it, keyEnd)
                 \cup WipeLoopVisited(InsertBounds(s, keyBegin, keyEnd, val),
                                      1, valBegin)

\* m_map after assign(keyBegin, keyEnd, val) on the map (valBegin, m).
assign(valBegin, m, keyBegin, keyEnd, val) ==
    IF EmptyInterval(keyBegin, keyEnd)
    THEN m
    ELSE LET s == ScanLoop(m, LowerBound(m, keyBegin), keyEnd, valBegin)
         IN  WipeLoop(InsertBounds(s, keyBegin, keyEnd, val), 1, valBegin)

-----------------------------------------------------------------------------
(* interval_map::operator[] *)

index(valBegin, m, key) ==
    LET it == UpperBound(m, key)
    IN  IF it = 1 THEN valBegin ELSE second(m[it - 1])

-----------------------------------------------------------------------------
(* The oracle of the differential test: an array with one cell per key. *)

OracleAssign(cells, keyBegin, keyEnd, val) ==
    [k \in DOMAIN cells |->
        IF keyBegin <= k /\ k < keyEnd THEN val ELSE cells[k]]

-----------------------------------------------------------------------------
(* The object and the calls made on it *)

\* interval_map(value): m_valBegin is value and m_map is empty.
Init ==
    /\ m_valBegin \in Vals
    /\ m_map = <<>>
    /\ call = [op |-> "new"]
    /\ old_map = <<>>
    /\ oracle = [k \in LookupKeys |-> m_valBegin]

\* A call assign(keyBegin, keyEnd, val).
CallAssign(keyBegin, keyEnd, val) ==
    /\ m_map' = assign(m_valBegin, m_map, keyBegin, keyEnd, val)
    /\ old_map' = m_map
    /\ call' = [op |-> "assign", keyBegin |-> keyBegin, keyEnd |-> keyEnd,
                val |-> val]
    /\ UNCHANGED m_valBegin

\* A call (*this)[key].
CallIndex(key) ==
    /\ call' = [op |-> "index", key |-> key,
                ret |-> index(m_valBegin, m_map, key)]
    /\ old_map' = m_map
    /\ UNCHANGED <<m_valBegin, m_map, oracle>>

Assign == \E keyBegin \in Keys, keyEnd \in Keys, val \in Vals :
              CallAssign(keyBegin, keyEnd, val) /\ UNCHANGED oracle

Index == \E key \in LookupKeys : CallIndex(key)

Next == Assign \/ Index

Spec == Init /\ [][Next]_vars

\* The differential test: every assign is also made on the oracle.
DiffAssign == \E keyBegin \in Keys, keyEnd \in Keys, val \in Vals :
                  /\ CallAssign(keyBegin, keyEnd, val)
                  /\ oracle' = OracleAssign(oracle, keyBegin, keyEnd, val)

DiffNext == DiffAssign

DiffSpec == Init /\ [][DiffNext]_vars

-----------------------------------------------------------------------------
(* What the calls are expected to do *)

\* The last call was assign with a non-empty interval.
Assigned == call.op = "assign" /\ call.keyBegin < call.keyEnd

\* The keys of the entries of m.
KeysOf(m) == {first(m[i]) : i \in 1..Len(m)}

\* The function a map stands for (I4 of the data model): the value of the
\* entry with the greatest key <= key, and valBegin when there is none.
ValueAt(valBegin, m, key) ==
    LET below == {i \in 1..Len(m) : first(m[i]) <= key}
    IN  IF below = {} THEN valBegin
        ELSE second(m[CHOOSE i \in below :
                          \A j \in below : first(m[j]) <= first(m[i])])

\* C1: after assign(b, e, v) with b < e, lookup(k) = v for every key k with
\* b <= k < e.
C1_AssignSetsRange ==
    Assigned =>
        \A k \in LookupKeys :
            (call.keyBegin <= k /\ k < call.keyEnd)
                => index(m_valBegin, m_map, k) = call.val

\* An assign over a range that held entries and other values has been made.
C1_Witness ==
    /\ Assigned
    /\ \E k \in KeysOf(old_map) : call.keyBegin <= k /\ k < call.keyEnd
    /\ \E k \in LookupKeys :
          /\ call.keyBegin <= k /\ k < call.keyEnd
          /\ index(m_valBegin, old_map, k) # call.val
    /\ C1_AssignSetsRange

\* C2: after assign(b, e, v) with b < e, lookup(k) is what it was before the
\* call for every key k outside the range (k < b or k >= e).
C2_AssignFrame ==
    Assigned =>
        \A k \in LookupKeys :
            (k < call.keyBegin \/ k >= call.keyEnd)
                => index(m_valBegin, m_map, k) = index(m_valBegin, old_map, k)

\* C3: canonicity: keys strictly increasing, no two consecutive entries with
\* equal values, and the first entry's value different from the base value.
C3_Canonical ==
    /\ \A i \in 1..(Len(m_map) - 1) : first(m_map[i]) < first(m_map[i + 1])
    /\ \A i \in 1..(Len(m_map) - 1) : second(m_map[i]) # second(m_map[i + 1])
    /\ Len(m_map) > 0 => second(m_map[1]) # m_valBegin

\* An assign whose inserts left duplicates on both sides, which were wiped:
\* the map shrank and still has entries.
C3_Witness ==
    /\ Assigned
    /\ Len(m_map) + 2 <= Len(old_map)
    /\ Len(m_map) >= 2
    /\ C3_Canonical

\* C4: assign(b, e, v) with !(b < e) changes neither the entries, nor the
\* base value, nor any lookup result.
C4_EmptyRangeNoOp ==
    [][(call'.op = "assign" /\ ~(call'.keyBegin < call'.keyEnd)) =>
          /\ m_map' = m_map
          /\ m_valBegin' = m_valBegin
          /\ \A k \in LookupKeys :
                index(m_valBegin', m_map', k) = index(m_valBegin, m_map, k)]_vars

\* An assign with inverted bounds has been made on a map with entries.
C4_Witness ==
    /\ call.op = "assign"
    /\ call.keyEnd < call.keyBegin
    /\ Len(old_map) > 0
    /\ m_map = old_map

\* C5: idempotence: assign(b, e, v) made a second time in a row leaves the
\* entries as the first call left them.
C5_Idempotent ==
    [][(call.op = "assign" /\ call' = call) => m_map' = m_map]_vars

\* C6: after every call the map's lookup agrees with the oracle on every key
\* of the window.
C6_OracleAgrees ==
    \A k \in LookupKeys : index(m_valBegin, m_map, k) = oracle[k]

\* C7: lookup(key) returns the base value when no entry has a key <= key and
\* the value of the entry with the greatest key <= key otherwise, and changes
\* neither the base value nor the entries.
C7_LookupTotalReadOnly ==
    [][call'.op = "index" =>
          /\ call'.ret \in Vals
          /\ call'.ret = ValueAt(m_valBegin, m_map, call'.key)
          /\ m_map' = m_map
          /\ m_valBegin' = m_valBegin]_vars

\* A lookup has been made at the key of an entry that is not the first one,
\* and another below every entry.
C7_Witness ==
    /\ call.op = "index"
    /\ Len(m_map) >= 2
    /\ call.key = first(m_map[2])
    /\ call.ret = second(m_map[2])
    /\ index(m_valBegin, m_map, first(m_map[1]) - 1) = m_valBegin

\* The value that applies just below key: the value of the entry with the
\* greatest key < key, and valBegin when there is none.
ValueBelow(valBegin, m, key) ==
    LET below == {i \in 1..Len(m) : first(m[i]) < key}
    IN  IF below = {} THEN valBegin
        ELSE second(m[CHOOSE i \in below :
                          \A j \in below : first(m[j]) <= first(m[i])])

\* The map of the test testInsertShouldMakeEmptyArray before its last call.
BCDMap ==
    assign("A", assign("A", assign("A", <<>>, 2, 4, "B"), 4, 6, "C"), 6, 8, "D")

\* C8: assign(b, e, base) with b < e, b <= every entry's key and every
\* entry's key <= e leaves no entry and lookup returning base for every key;
\* so does assign(2,8,'A') after assign(2,4,'B'), assign(4,6,'C'),
\* assign(6,8,'D') on the map of base 'A', for the keys of [0,10).
C8_CollapseToEmpty ==
    /\ (/\ Assigned
        /\ call.val = m_valBegin
        /\ \A k \in KeysOf(old_map) : call.keyBegin <= k /\ k <= call.keyEnd)
       => /\ m_map = <<>>
          /\ \A k \in LookupKeys : index(m_valBegin, m_map, k) = m_valBegin
    /\ BCDMap = <<<<2, "B">>, <<4, "C">>, <<6, "D">>, <<8, "A">>>>
    /\ assign("A", BCDMap, 2, 8, "A") = <<>>
    /\ \A k \in 0..9 : index("A", assign("A", BCDMap, 2, 8, "A"), k) = "A"

\* The base value has been assigned over a range that holds every one of
\* three or more entries, and the map is empty.
C8_Witness ==
    /\ Assigned
    /\ call.val = m_valBegin
    /\ Len(old_map) >= 3
    /\ \A k \in KeysOf(old_map) : call.keyBegin <= k /\ k <= call.keyEnd
    /\ m_map = <<>>

\* C9: if before assign(b, e, v) with b < e the value just left of b is v and
\* lookup(e) is v, then after the call no entry has a key in [b, e] and the
\* number of entries has not increased.
C9_NoNewBreakpoint ==
    (/\ Assigned
     /\ ValueBelow(m_valBegin, old_map, call.keyBegin) = call.val
     /\ index(m_valBegin, old_map, call.keyEnd) = call.val)
    => /\ \A k \in KeysOf(m_map) : ~(call.keyBegin <= k /\ k <= call.keyEnd)
       /\ Len(m_map) <= Len(old_map)

\* C10, as stated: assign(b, e, base) with b < e and no entry with a key in
\* [b, e) leaves the entries as they were.
C10_BaseOverNoBreakpoints ==
    (/\ Assigned
     /\ call.val = m_valBegin
     /\ \A k \in KeysOf(old_map) : ~(call.keyBegin <= k /\ k < call.keyEnd))
    => m_map = old_map

\* C10, amended: assign(b, e, base) with b < e, no entry with a key in [b, e)
\* and lookup(b) = base before the call leaves the entries as they were.
C10_BaseOverBaseRun ==
    (/\ Assigned
     /\ call.val = m_valBegin
     /\ \A k \in KeysOf(old_map) : ~(call.keyBegin <= k /\ k < call.keyEnd)
     /\ index(m_valBegin, old_map, call.keyBegin) = m_valBegin)
    => m_map = old_map

\* The base value has been assigned above the last entry and with some space
\* after it, and the entries are as they were.
C10_Witness ==
    /\ Assigned
    /\ call.val = m_valBegin
    /\ Len(old_map) >= 2
    /\ \A k \in KeysOf(old_map) : k < call.keyBegin
    /\ index(m_valBegin, old_map, call.keyBegin) = m_valBegin
    /\ m_map = old_map

\* The map of the test testInsertWithIntersectionFor2Ranges before its last
\* call.
BCMap == assign("A", assign("A", <<>>, 2, 5, "B"), 5, 8, "C")

\* The last call was an assign straddling the boundary of two runs: one
\* entry, at k, lies in [b, e), with b < k, no entry has the key e, and val
\* is neither the value left of b nor the value of the entry at k.
Straddled(k) ==
    /\ Assigned
    /\ {i \in KeysOf(old_map) : call.keyBegin <= i /\ i < call.keyEnd} = {k}
    /\ call.keyBegin < k
    /\ call.keyEnd \notin KeysOf(old_map)
    /\ ValueBelow(m_valBegin, old_map, call.keyBegin) # call.val
    /\ ValueAt(m_valBegin, old_map, k) # call.val

\* C11: from the map of base 'A', assign(2,5,'B'), assign(5,8,'C'),
\* assign(4,6,'D') gives exactly [(2,'B'),(4,'D'),(6,'C'),(8,'A')]; an assign
\* straddling the boundary of two runs truncates the left run at b and
\* restarts the right run at e, and keeps every other entry.
C11_BoundaryMerge ==
    /\ BCMap = <<<<2, "B">>, <<5, "C">>, <<8, "A">>>>
    /\ assign("A", BCMap, 4, 6, "D")
          = <<<<2, "B">>, <<4, "D">>, <<6, "C">>, <<8, "A">>>>
    /\ \A k \in Keys :
          Straddled(k) =>
              /\ KeysOf(m_map)
                    = (KeysOf(old_map) \ {k}) \cup {call.keyBegin, call.keyEnd}
              /\ \A i \in 1..Len(m_map) :
                    second(m_map[i]) =
                        IF first(m_map[i]) = call.keyBegin THEN call.val
                        ELSE IF first(m_map[i]) = call.keyEnd
                        THEN ValueAt(m_valBegin, old_map, k)
                        ELSE ValueAt(m_valBegin, old_map, first(m_map[i]))

\* An assign has straddled the boundary of two runs.
C11_Witness ==
    /\ \E k \in Keys : Straddled(k)
    /\ Len(m_map) = Len(old_map) + 1

\* The value assign puts in the closing entry (keyEnd, lastValue).
ClosingValue(valBegin, m, keyBegin, keyEnd) ==
    ScanLoop(m, LowerBound(m, keyBegin), keyEnd, valBegin).lastValue

\* assign inserts a closing entry at keyEnd.
ClosingInserted(valBegin, m, keyBegin, keyEnd) ==
    ScanLoop(m, LowerBound(m, keyBegin), keyEnd, valBegin).isShouldFulfill

\* C12: when assign(b, e, v) inserts a closing entry at e, its value is the
\* value that applied just below e before the call: the value of the
\* greatest entry with key < e, or the base value if there is none.
C12_ClosingValue ==
    (/\ Assigned
     /\ ClosingInserted(m_valBegin, old_map, call.keyBegin, call.keyEnd))
    => ClosingValue(m_valBegin, old_map, call.keyBegin, call.keyEnd)
          = ValueBelow(m_valBegin, old_map, call.keyEnd)

\* C13: after assign(b, e, v) with b < e, every entry whose key was < b or
\* > e before the call is still there with the same value, and no entry with
\* a key < b or > e has been created.
C13_EntriesOutsideKept ==
    Assigned =>
        LET outside(m) == {m[i] : i \in {j \in 1..Len(m) :
                              first(m[j]) < call.keyBegin
                                  \/ first(m[j]) > call.keyEnd}}
        IN  outside(m_map) = outside(old_map)

\* C14: if an entry (e, w) exists before assign(b, e, v) with b < e, then no
\* closing entry is inserted, after the call the entry at e is (e, w) when
\* w # v and there is none when w = v, and the only entry that can have a key
\* in [b, e) is (b, v).
C14_NoOrphanAtKeyEnd ==
    (Assigned /\ call.keyEnd \in KeysOf(old_map)) =>
        LET w == ValueAt(m_valBegin, old_map, call.keyEnd)
            at(m, k) == {m[i] : i \in {j \in 1..Len(m) : first(m[j]) = k}}
        IN  /\ ~ClosingInserted(m_valBegin, old_map, call.keyBegin, call.keyEnd)
            /\ at(m_map, call.keyEnd)
                  = IF w = call.val THEN {} ELSE {<<call.keyEnd, w>>}
            /\ \A i \in 1..Len(m_map) :
                  (call.keyBegin <= first(m_map[i])
                      /\ first(m_map[i]) < call.keyEnd)
                  => m_map[i] = <<call.keyBegin, call.val>>

\* An assign ending at an entry that holds the assigned value has removed
\* that entry and the entries of the range.
C14_Witness ==
    /\ Assigned
    /\ call.keyEnd \in KeysOf(old_map)
    /\ ValueAt(m_valBegin, old_map, call.keyEnd) = call.val
    /\ \E k \in KeysOf(old_map) : call.keyBegin < k /\ k < call.keyEnd
    /\ call.keyEnd \notin KeysOf(m_map)
    /\ call.keyBegin \in KeysOf(m_map)

\* The keys of the entries the last assign removed or inserted.
Touched ==
    {call.keyBegin, call.keyEnd}
        \cup {k \in KeysOf(old_map) : call.keyBegin <= k /\ k <= call.keyEnd}
        \cup (KeysOf(old_map) \ KeysOf(m_map))

\* The keys of the entries next to the range of the last assign: the greatest
\* key below keyBegin and the least key above keyEnd.
Neighbours ==
    {k \in KeysOf(old_map) :
        \/ k < call.keyBegin
              /\ \A j \in KeysOf(old_map) : j < call.keyBegin => j <= k
        \/ k > call.keyEnd
              /\ \A j \in KeysOf(old_map) : j > call.keyEnd => k <= j}

\* C15: after the search for the insertion point, the entries assign visits
\* are the ones it removes or inserts and at most the neighbour on each side
\* of the range (a number bounded by the entries removed or inserted plus a
\* constant); it makes no pass over the whole sequence.
C15_VisitsOnlyTouched ==
    Assigned =>
        assignVisited(m_valBegin, old_map, call.keyBegin, call.keyEnd, call.val)
            \subseteq (Touched \cup Neighbours)

\* C16: the sequence of entries is empty or its last entry holds the base
\* value, so lookup returns the base value at and above the greatest key, and
\* below the least key.
C16_LastIsBase ==
    Len(m_map) > 0 =>
        /\ second(m_map[Len(m_map)]) = m_valBegin
        /\ \A k \in LookupKeys :
              (k >= first(m_map[Len(m_map)]) \/ k < first(m_map[1]))
                  => index(m_valBegin, m_map, k) = m_valBegin

\* An assign has erased the last entry and closed the range with the value
\* it held, above every key the map had.
C16_Witness ==
    /\ Assigned
    /\ Len(old_map) > 0
    /\ first(old_map[Len(old_map)]) < call.keyEnd
    /\ call.keyBegin <= first(old_map[Len(old_map)])
    /\ call.val # m_valBegin
    /\ Len(m_map) >= 3
    /\ m_map[Len(m_map)] = <<call.keyEnd, m_valBegin>>

\* C17: one call changes the map only so: the base value stays; an assign
\* with keyBegin < keyEnd leaves entries whose keys are keys of earlier
\* entries, keyBegin or keyEnd, and whose values are values of earlier
\* entries, the base value or val, at most two more than before; every other
\* call leaves the entries as they are.  With no entry at construction, every
\* key is then the bound of an earlier non-empty assign and every value the
\* base value or one passed to an earlier assign.
C17_Provenance ==
    [][/\ m_valBegin' = m_valBegin
       /\ IF call'.op = "assign" /\ call'.keyBegin < call'.keyEnd
          THEN /\ KeysOf(m_map') \subseteq
                      KeysOf(m_map) \cup {call'.keyBegin, call'.keyEnd}
               /\ {second(m_map'[i]) : i \in 1..Len(m_map')} \subseteq
                      {second(m_map[i]) : i \in 1..Len(m_map)}
                          \cup {m_valBegin, call'.val}
               /\ Len(m_map') <= Len(m_map) + 2
          ELSE m_map' = m_map]_vars

\* An assign has added two entries, with a value no entry held before.
C17_Witness ==
    /\ Assigned
    /\ Len(old_map) >= 2
    /\ Len(m_map) = Len(old_map) + 2
    /\ \A i \in 1..Len(old_map) : second(old_map[i]) # call.val

====
